---- MODULE Spec2Model ----
(***************************************************************************)
(* A model of the booking session of gym_booking.py: the date poller       *)
(* (step8_select_date), the first attempt (step9_select_time_slot,         *)
(* step10_click_book_button_with_retry, step11_check_success) and the      *)
(* retry loop (smart_booking_flow), as driven by run_booking_from_step8.   *)
(*                                                                         *)
(* The specifications of the module:                                      *)
(*   Spec         the session, run_booking_from_step8 from its first line; *)
(*   SpecExec     one run of step10_click_book_button_with_retry, with its *)
(*                wall-clock time in milliseconds;                         *)
(*   SpecClassify step11_check_success applied to every small page text;   *)
(*   SpecWait     main and wait_until_booking_time, the clock in ticks;    *)
(*   SpecRun      run_booking: the one-time phases, then the session;      *)
(*   SpecLive     the session with an unbounded date poller and fairness.  *)
(*                                                                         *)
(* Texts (row labels, date labels, modal and page text, configured         *)
(* strings) are sequences of tokens; Python's `a in b` on strings is the   *)
(* contiguous-subsequence test Contains(b, a).                             *)
(***************************************************************************)
EXTENDS Integers, Sequences, FiniteSets, TLC

(***************************************************************************)
(* Bounds of the model.                                                    *)
(***************************************************************************)
\* bookable slot elements the page can show
NSlots == 3
\* the date poller is followed for at most this many scans
MaxScans == 2
\* date options displayed at one scan
MaxDates == 2
\* the session clock (minutes after the release instant) is followed up to this value
MaxNow == 6
\* the latency of a click or a lookup is 0..MaxLatency steps of LatencyStepMs
MaxLatency == 2
LatencyStepMs == 100
\* longest modal or page text in SpecClassify
MaxTextLen == 3
\* SpecWait: the wall clock is read in ticks of 1/TicksPerSecond second
TicksPerSecond == 2
\* SpecWait: the program is invoked at most this many seconds before the start time
MaxWaitSeconds == 3
\* SpecWait: ... and at most this many ticks after the release instant
MaxLateTicks == 2
\* SpecWait: a sleep, or the code between two clock readings, takes up to this many
\* ticks more than asked
MaxDriftTicks == 1

(***************************************************************************)
(* Program constants.                                                      *)
(***************************************************************************)
\* timedelta(minutes=5), the grace window after booking_time
GRACE_MINUTES == 5
\* while time.time() - start_time < 2.0
BUDGET_MS == 2000
\* asyncio.sleep(0.125)
SLEEP_MS == 125
\* num_buttons = min(2, len(...))
GROUP_SIZE == 2
\* start_time = booking_time - timedelta(minutes=1)
LEAD_SECONDS == 60

(***************************************************************************)
(* Helpers.                                                                *)
(***************************************************************************)
Min(a, b) == IF a <= b THEN a ELSE b

Range(s) == {s[i] : i \in DOMAIN s}

SeqsUpTo(S, n) == UNION {[1..k -> S] : k \in 0..n}

\* Python: sub in text (strings)
Contains(text, sub) ==
    \E i \in 0..(Len(text) - Len(sub)) : SubSeq(text, i + 1, i + Len(sub)) = sub

\* the elements of a set of slots in document order
RECURSIVE InDomOrder(_)
InDomOrder(S) ==
    IF S = {} THEN <<>>
    ELSE LET m == CHOOSE x \in S : \A y \in S : x <= y
         IN  <<m>> \o InDomOrder(S \ {m})

\* Python: random.sample(population, k): k entries at pairwise distinct positions
Sample(population, k) ==
    {[j \in 1..k |-> population[idx[j]]] :
        idx \in {f \in [1..k -> DOMAIN population] :
                    \A a, b \in 1..k : a # b => f[a] # f[b]}}

\* Python: if x in lst: lst.remove(x), which drops the first occurrence
RECURSIVE RemoveFirst(_, _)
RemoveFirst(lst, x) ==
    IF lst = <<>> THEN <<>>
    ELSE IF Head(lst) = x THEN Tail(lst)
    ELSE <<Head(lst)>> \o RemoveFirst(Tail(lst), x)

\* for button in selected_buttons: if button in all: all.remove(button)
\* a removal loop that stops after the first button of the group
RemoveHeadOnly(lst, buttons) ==
    IF buttons = <<>> THEN lst ELSE RemoveFirst(lst, Head(buttons))

RECURSIVE RemoveAll(_, _)
RemoveAll(lst, buttons) ==
    IF buttons = <<>> THEN lst
    ELSE RemoveAll(RemoveFirst(lst, Head(buttons)), Tail(buttons))

(***************************************************************************)
(* The page.  Slot s is a button of table row RowOf(s); row r carries the  *)
(* label <<r, r + 1>> (start hour, end hour).                              *)
(***************************************************************************)
Slots == 1..NSlots
RowOf(s) == (s + 1) \div 2
NRows == RowOf(NSlots)
RowText(r) == <<r, r + 1>>

\* self.config: time_slots (a list of strings) and time_slot (one string, '' when
\* unset).  The configurations followed: nothing configured; time_slot alone; one
\* entry in time_slots; two entries that both occur in the label of row 1.
Configs ==
    { [time_slots |-> <<>>,               time_slot |-> <<>>],
      [time_slots |-> <<>>,               time_slot |-> <<2, 3>>],
      [time_slots |-> << <<1>> >>,        time_slot |-> <<2, 3>>],
      [time_slots |-> << <<1>>, <<1, 2>> >>, time_slot |-> <<2, 3>>] }

\* the configured target date and the labels a date option may carry
date_number == <<9, 1>>
DateLabels == {<<9, 1>>, <<8, 3>>, <<9, 1, 0>>}

\* booking_time is None or an instant; the clock counts minutes from that instant
None == <<>>
BookingTimes == {None, <<0>>}

\* a modal text or page text of the session specification
SUCCESS_1 == <<1, 2>>
SUCCESS_2 == <<3, 1, 2>>
SessionTexts == {<<1, 2>>, <<2, 1>>}
\* the page's modal: NoModal, or <<text>> for a .modal-content showing text
NoModal == <<>>
SessionModals == {NoModal} \cup {<<t>> : t \in SessionTexts}

VARIABLES
    \* ---- the session (run_booking_from_step8, smart_booking_flow)
    pc,                     \* position of the session in the code
    result,                 \* what the run reports: "none" while running
    now,                    \* datetime.now(), in minutes
    booking_time,           \* self.booking_time
    config,                 \* self.config: time_slots, time_slot
    refresh_count,          \* step8_select_date: refresh_count
    date_scans,             \* scans of the date options made so far
    reloads,                \* page reloads made by the date poller
    date_clicks,            \* clicks on a date option
    seen_at,                \* first scan that displayed the target date, 0: none yet
    all_bookable_buttons,   \* the list of that name in step9 and in smart_booking_flow
    selected_buttons,       \* step9: the list the first group is drawn from
    group,                  \* the group of the current attempt (step9:
                            \* final_selected_buttons, smart flow: selected_buttons),
                            \* <<>> between attempts, when nothing reads it any more
    outcome,                \* the classification of the attempt that step11 has just
                            \* judged: "Success", "Failure" or "Unknown"; "none" otherwise
    modal,                  \* the page's modal as last observed
    click_count,            \* step10: click_count
    tried,                  \* slots of the groups whose attempt ended without Success
    attempts,               \* runs of step10 so far, one per attempt
    submit_clicked,         \* a click on the submit control has been made in this session
    \* ---- one run of step10 in detail (SpecExec)
    ex_pc,                  \* position in step10: "lookup", "loop", "wait", "done"
    elapsed,                \* time.time() - start_time, in ms
    last_latency,           \* what the click and lookup calls of the last iteration took
    observed,               \* a check or the final wait has seen a result surface
    loop_exit,              \* how the loop was left: "budget", "error", "modal"
    ex_ret,                 \* what step10 returns: "true", "false"; "none" while it runs
    \* ---- the classifier (SpecClassify)
    cls_in, cls_out,
    \* ---- main and wait_until_booking_time (SpecWait)
    wall,                   \* datetime.now() in ticks, 0 at booking_time
    remaining_seconds,      \* wait_until_booking_time: remaining_seconds
    sleeps,                 \* asyncio.sleep(1) calls made by the countdown
    late_start,             \* the warning of line 628 was logged
    \* ---- the one-time phases of run_booking (SpecRun)
    entered,                \* how often each of step1..step8 was entered
    close_lookups,          \* step5: lookups of button.btn-close
    close_reloads,          \* step5: page reloads
    dismissed,              \* step5: the notification was closed
    \* ---- the retry loop of smart_booking_flow
    scan_size,              \* len(all_bookable_buttons) as the loop's scan returned it
    leftover                \* the surface step10 has just seen was on the page before
                            \* the attempt's first submit click

session_vars ==
    <<pc, result, now, booking_time, config, refresh_count, date_scans, reloads,
      date_clicks, seen_at, all_bookable_buttons, selected_buttons, group, outcome,
      modal, tried, attempts,
      submit_clicked>>
exec_vars == <<ex_pc, elapsed, last_latency, observed, loop_exit, ex_ret>>
cls_vars == <<cls_in, cls_out>>
wait_vars == <<wall, remaining_seconds, sleeps, late_start>>
once_vars == <<entered, close_lookups, close_reloads, dismissed>>
retry_vars == <<scan_size, leftover>>
aux_vars == <<wait_vars, once_vars, retry_vars>>
vars == <<session_vars, click_count, exec_vars, cls_vars, aux_vars>>

(***************************************************************************)
(* The deadline (step8_select_date and smart_booking_flow compute it the   *)
(* same way).                                                              *)
(***************************************************************************)
timeout_time(bt) == IF bt = None THEN None ELSE <<bt[1] + GRACE_MINUTES>>

\* hasExpired expiring at the deadline itself
hasExpiredAtDeadline(t, tt) == tt # None /\ t >= tt[1]

\* hasExpired with the deadline taken one minute late
hasExpiredLate(t, tt) == tt # None /\ t > tt[1] + 1

\* if timeout_time and datetime.now() > timeout_time
hasExpired(t, tt) == tt # None /\ t > tt[1]

\* every await lets the clock advance
Advance == \E t \in now..MaxNow : now' = t

(***************************************************************************)
(* step8_select_date                                                       *)
(***************************************************************************)
\* FirstMatch giving up after the first displayed option
FirstMatchHeadOnly(elems, i) ==
    IF i > Len(elems) THEN 0
    ELSE IF Contains(elems[i], date_number) THEN i
    ELSE 0

\* for element in date_elements: if date_number in text: click, return
RECURSIVE FirstMatch(_, _)
FirstMatch(elems, i) ==
    IF i > Len(elems) THEN 0
    ELSE IF Contains(elems[i], date_number) THEN i
    ELSE FirstMatch(elems, i + 1)

DateShown(elems) == \E i \in DOMAIN elems : Contains(elems[i], date_number)

Step8Expired ==
    /\ pc = "step8"
    /\ hasExpired(now, timeout_time(booking_time))
    /\ refresh_count' = refresh_count + 1
    /\ result' = "DeadlineExceeded"
    /\ pc' = "done"
    /\ UNCHANGED <<now, booking_time, config, date_scans, reloads, date_clicks, seen_at,
                   all_bookable_buttons, selected_buttons, group, outcome,
                   modal, tried, attempts,
                   click_count, submit_clicked, exec_vars, cls_vars, aux_vars>>

Step8Found ==
    /\ pc = "step8"
    /\ ~hasExpired(now, timeout_time(booking_time))
    /\ \E elems \in SeqsUpTo(DateLabels, MaxDates) :
          /\ FirstMatch(elems, 1) # 0
          /\ seen_at' = IF seen_at = 0 /\ DateShown(elems) THEN date_scans + 1 ELSE seen_at
    /\ refresh_count' = refresh_count + 1
    /\ date_scans' = date_scans + 1
    /\ date_clicks' = date_clicks + 1
    /\ pc' = "step9"
    /\ Advance
    /\ UNCHANGED <<result, booking_time, config, reloads,
                   all_bookable_buttons, selected_buttons, group, outcome,
                   modal, tried, attempts,
                   click_count, submit_clicked, exec_vars, cls_vars, aux_vars>>

Step8Reload ==
    /\ pc = "step8"
    /\ ~hasExpired(now, timeout_time(booking_time))
    /\ refresh_count < MaxScans
    /\ \E elems \in SeqsUpTo(DateLabels, MaxDates) :
          /\ FirstMatch(elems, 1) = 0
          /\ seen_at' = IF seen_at = 0 /\ DateShown(elems) THEN date_scans + 1 ELSE seen_at
    /\ refresh_count' = refresh_count + 1
    /\ date_scans' = date_scans + 1
    /\ reloads' = reloads + 1
    /\ pc' = "step8"
    /\ Advance
    /\ UNCHANGED <<result, booking_time, config, date_clicks,
                   all_bookable_buttons, selected_buttons, group, outcome,
                   modal, tried, attempts,
                   click_count, submit_clicked, exec_vars, cls_vars, aux_vars>>

(***************************************************************************)
(* step9_select_time_slot                                                  *)
(***************************************************************************)
\* target_time_slots, from config['time_slots'] or else config['time_slot']
target_time_slots(cfg) ==
    IF cfg.time_slots # <<>> THEN cfg.time_slots
    ELSE IF cfg.time_slot # <<>> THEN <<cfg.time_slot>>
    ELSE <<>>

\* row.query_selector_all(bookable_slot): the bookable buttons of one row
row_bookable_buttons(row, bookable) == InDomOrder({s \in bookable : RowOf(s) = row})

\* for target_slot in target_time_slots: if target_slot in row_text: extend
RECURSIVE MatchTargets(_, _, _, _)
MatchTargets(row, targets, i, bookable) ==
    IF i > Len(targets) THEN <<>>
    ELSE (IF Contains(RowText(row), targets[i])
          THEN row_bookable_buttons(row, bookable) ELSE <<>>)
         \o MatchTargets(row, targets, i + 1, bookable)

\* for row in time_rows: ...
RECURSIVE MatchRows(_, _, _)
MatchRows(row, targets, bookable) ==
    IF row > NRows THEN <<>>
    ELSE MatchTargets(row, targets, 1, bookable) \o MatchRows(row + 1, targets, bookable)

\* the list step9 draws from: the matches, or every bookable button when none matched
Step9Candidates(cfg, bookable) ==
    LET matched == MatchRows(1, target_time_slots(cfg), bookable)
    IN  IF matched = <<>> THEN InDomOrder(bookable) ELSE matched

Step9NoButtons ==
    /\ pc = "step9"
    /\ all_bookable_buttons' = <<>>
    /\ result' = "NoCandidatesFound"
    /\ pc' = "done"
    /\ Advance
    /\ UNCHANGED <<booking_time, config, refresh_count, date_scans, reloads, date_clicks,
                   seen_at, selected_buttons, group, outcome, modal, tried, attempts,
                   click_count, submit_clicked, exec_vars, cls_vars, aux_vars>>

Step9Select ==
    /\ pc = "step9"
    /\ \E bookable \in (SUBSET Slots) \ {{}} :
          LET candidates == Step9Candidates(config, bookable)
              num_buttons == Min(GROUP_SIZE, Len(candidates))
          IN  /\ all_bookable_buttons' = InDomOrder(bookable)
              /\ selected_buttons' = candidates
              /\ \E final_selected_buttons \in Sample(candidates, num_buttons) :
                    /\ group' = final_selected_buttons
    /\ pc' = "step10"
    /\ Advance
    /\ UNCHANGED <<result, booking_time, config, refresh_count, date_scans, reloads,
                   date_clicks, seen_at, outcome, modal, tried,
                   attempts, click_count, submit_clicked, exec_vars, cls_vars, aux_vars>>

(***************************************************************************)
(* step11_check_success: what it returns and the line it logs.             *)
(***************************************************************************)
\* step11_check_success logging the modal's line on the page-text path too
step11_same_log(modal_content, body_text) ==
    IF modal_content # NoModal
    THEN IF Contains(modal_content[1], SUCCESS_1) \/ Contains(modal_content[1], SUCCESS_2)
         THEN [ret |-> TRUE, log |-> "booking succeeded"]
         ELSE [ret |-> FALSE, log |-> "no success text in the modal"]
    ELSE IF Contains(body_text, SUCCESS_1)
         THEN [ret |-> TRUE, log |-> "booking succeeded"]
         ELSE [ret |-> FALSE, log |-> "no success text in the modal"]

step11_check_success(modal_content, body_text) ==
    IF modal_content # NoModal
    THEN IF Contains(modal_content[1], SUCCESS_1) \/ Contains(modal_content[1], SUCCESS_2)
         THEN [ret |-> TRUE, log |-> "booking succeeded"]
         ELSE [ret |-> FALSE, log |-> "no success text in the modal"]
    ELSE IF Contains(body_text, SUCCESS_1)
         THEN [ret |-> TRUE, log |-> "booking succeeded"]
         ELSE [ret |-> FALSE, log |-> "no success text detected"]

\* except Exception: logger.error(...); return False
step11_raises == [ret |-> FALSE, log |-> "check failed"]

\* the Outcome a caller or an observer can tell from the return value and the log
Outcome(r) ==
    IF r.ret THEN "Success"
    ELSE IF r.log = "no success text in the modal" THEN "Failure"
    ELSE "Unknown"

(***************************************************************************)
(* step10_click_book_button_with_retry as the session sees it: the page's  *)
(* modal when it returns, the boolean returned, and whether a click was    *)
(* made (none when the control is not found or the first click raises; the *)
(* 5 s wait can still see a modal then).  SpecExec below follows its loop  *)
(* click by click.                                                         *)
(***************************************************************************)
Step10Results ==
    {[ret |-> found /\ m # NoModal, modal |-> m, clicked |-> c] :
        found \in BOOLEAN, m \in SessionModals, c \in BOOLEAN}

\* AfterCheck without the return on success
AfterCheckNoReturn(booking_success, retry_pc) == retry_pc

\* run_booking_from_step8 and smart_booking_flow: where a classification leads
AfterCheck(booking_success, retry_pc) == IF booking_success THEN "done" ELSE retry_pc

(***************************************************************************)
(* run_booking_from_step8: the first attempt                               *)
(***************************************************************************)
Step10First ==
    /\ pc = "step10"
    /\ \E r \in Step10Results :
          /\ modal' = r.modal
          /\ pc' = IF r.ret THEN "step11" ELSE "smart_scan"
          /\ tried' = IF r.ret THEN tried ELSE tried \cup Range(group)
          /\ group' = IF r.ret THEN group ELSE <<>>
          /\ submit_clicked' = (submit_clicked \/ r.clicked)
    /\ attempts' = attempts + 1
    /\ Advance
    /\ UNCHANGED <<result, booking_time, config, refresh_count, date_scans, reloads,
                   date_clicks, seen_at, all_bookable_buttons, selected_buttons,
                   outcome, click_count, exec_vars, cls_vars, aux_vars>>

Step11First ==
    /\ pc = "step11"
    /\ \E m \in SessionModals, t \in SessionTexts, raises \in BOOLEAN :
          LET r == IF raises THEN step11_raises ELSE step11_check_success(m, t)
          IN  /\ modal' = m
              /\ outcome' = Outcome(r)
              /\ pc' = AfterCheck(r.ret, "smart_scan")
              /\ result' = IF AfterCheck(r.ret, "smart_scan") = "done"
                            THEN "Success" ELSE result
              /\ tried' = IF r.ret THEN tried ELSE tried \cup Range(group)
              /\ group' = IF r.ret THEN group ELSE <<>>
    /\ Advance
    /\ UNCHANGED <<booking_time, config, refresh_count, date_scans, reloads,
                   date_clicks, seen_at, all_bookable_buttons, selected_buttons,
                   attempts, click_count, submit_clicked, exec_vars, cls_vars, aux_vars>>

(***************************************************************************)
(* smart_booking_flow                                                      *)
(***************************************************************************)
\* the scan at the head of smart_booking_flow finds no bookable button
SmartScanEmpty ==
    /\ pc = "smart_scan"
    /\ all_bookable_buttons' = <<>>
    /\ selected_buttons' = <<>>
    /\ result' = "NoCandidatesFound"
    /\ pc' = "done"
    /\ Advance
    /\ UNCHANGED <<booking_time, config, refresh_count, date_scans, reloads, date_clicks,
                   seen_at, group, outcome, modal, tried,
                   attempts, click_count, submit_clicked, exec_vars, cls_vars, aux_vars>>

SmartScan ==
    /\ pc = "smart_scan"
    /\ \E bookable \in (SUBSET Slots) \ {{}} :
          /\ all_bookable_buttons' = InDomOrder(bookable)
          /\ scan_size' = Cardinality(bookable)
    /\ selected_buttons' = <<>>
    /\ pc' = "smart_head"
    /\ Advance
    /\ UNCHANGED <<result, booking_time, config, refresh_count, date_scans, reloads,
                   date_clicks, seen_at, group, outcome, modal, tried, attempts,
                   click_count, submit_clicked, exec_vars, cls_vars, wait_vars,
                   once_vars, leftover>>

\* while all_bookable_buttons: the list is empty, the loop is left
SmartExhausted ==
    /\ pc = "smart_head"
    /\ all_bookable_buttons = <<>>
    /\ result' = "Exhausted"
    /\ pc' = "done"
    /\ UNCHANGED <<now, booking_time, config, refresh_count, date_scans, reloads,
                   date_clicks, seen_at, all_bookable_buttons, selected_buttons, group,
                   outcome, modal, tried, attempts, click_count, submit_clicked,
                   exec_vars, cls_vars, aux_vars>>

SmartTimedOut ==
    /\ pc = "smart_head"
    /\ all_bookable_buttons # <<>>
    /\ hasExpired(now, timeout_time(booking_time))
    /\ result' = "TimedOut"
    /\ pc' = "done"
    /\ UNCHANGED <<now, booking_time, config, refresh_count, date_scans, reloads,
                   date_clicks, seen_at, all_bookable_buttons, selected_buttons, group,
                   outcome, modal, tried, attempts, click_count, submit_clicked,
                   exec_vars, cls_vars, aux_vars>>

SmartSelect ==
    /\ pc = "smart_head"
    /\ all_bookable_buttons # <<>>
    /\ ~hasExpired(now, timeout_time(booking_time))
    /\ LET num_buttons == Min(GROUP_SIZE, Len(all_bookable_buttons))
       IN  \E chosen \in Sample(all_bookable_buttons, num_buttons) : group' = chosen
    /\ outcome' = "none"
    /\ pc' = "smart_step10"
    /\ Advance
    /\ UNCHANGED <<result, booking_time, config, refresh_count, date_scans, reloads,
                   date_clicks, seen_at, all_bookable_buttons, selected_buttons,
                   modal, tried, attempts, click_count, submit_clicked, exec_vars,
                   cls_vars, aux_vars>>

\* Nothing between two attempts reloads the page or closes a modal (lines 421-427,
\* 434-444): a surface the previous attempt left is still there when step10 looks
\* for .modal-content (lines 468, 481), unless the page itself has replaced it.
SmartStep10 ==
    /\ pc = "smart_step10"
    /\ \E r \in Step10Results, kept \in BOOLEAN :
          /\ kept => (modal # NoModal /\ r.modal = modal)
          /\ leftover' = (kept /\ r.ret)
          /\ modal' = r.modal
          /\ pc' = IF r.ret THEN "smart_step11" ELSE "smart_head"
          /\ all_bookable_buttons' =
                IF r.ret THEN all_bookable_buttons
                ELSE RemoveAll(all_bookable_buttons, group)
          /\ tried' = IF r.ret THEN tried ELSE tried \cup Range(group)
          /\ group' = IF r.ret THEN group ELSE <<>>
          /\ submit_clicked' = (submit_clicked \/ r.clicked)
    /\ attempts' = attempts + 1
    /\ Advance
    /\ UNCHANGED <<result, booking_time, config, refresh_count, date_scans, reloads,
                   date_clicks, seen_at, selected_buttons, outcome,
                   click_count, exec_vars, cls_vars, wait_vars, once_vars, scan_size>>

SmartStep11 ==
    /\ pc = "smart_step11"
    /\ \E m \in SessionModals, t \in SessionTexts, raises \in BOOLEAN :
          LET r == IF raises THEN step11_raises ELSE step11_check_success(m, t)
          IN  /\ modal' = m
              /\ outcome' = Outcome(r)
              /\ pc' = AfterCheck(r.ret, "smart_head")
              /\ result' = IF AfterCheck(r.ret, "smart_head") = "done"
                            THEN "Success" ELSE result
              /\ all_bookable_buttons' =
                    IF r.ret THEN all_bookable_buttons
                    ELSE RemoveAll(all_bookable_buttons, group)
              /\ tried' = IF r.ret THEN tried ELSE tried \cup Range(group)
              /\ group' = IF r.ret THEN group ELSE <<>>
    /\ leftover' = FALSE
    /\ Advance
    /\ UNCHANGED <<booking_time, config, refresh_count, date_scans, reloads,
                   date_clicks, seen_at, selected_buttons, attempts,
                   click_count, submit_clicked, exec_vars, cls_vars, wait_vars,
                   once_vars, scan_size>>

(***************************************************************************)
(* The session specification.                                              *)
(***************************************************************************)
ExecIdle ==
    /\ ex_pc = "idle" /\ elapsed = 0 /\ last_latency = 0
    /\ observed = FALSE /\ loop_exit = "none" /\ ex_ret = "none" /\ click_count = 0

ClsIdle ==
    /\ cls_in = [modal |-> NoModal, body |-> <<>>, raises |-> FALSE]
    /\ cls_out = [ret |-> FALSE, log |-> "not run"]

\* the one-time phases: step1 .. step7, and step8 as entered from run_booking_from_step8
Phases == 1..8

WaitIdle == wall = 0 /\ remaining_seconds = 0 /\ sleeps = 0 /\ late_start = FALSE

OnceIdle ==
    /\ entered = [p \in Phases |-> 0]
    /\ close_lookups = 0 /\ close_reloads = 0 /\ dismissed = FALSE

RetryIdle == scan_size = 0 /\ leftover = FALSE

Init ==
    /\ pc = "step8"
    /\ result = "none"
    /\ now \in GRACE_MINUTES..MaxNow
    /\ booking_time \in BookingTimes
    /\ config \in Configs
    /\ refresh_count = 0 /\ date_scans = 0 /\ reloads = 0 /\ date_clicks = 0
    /\ seen_at = 0
    /\ all_bookable_buttons = <<>> /\ selected_buttons = <<>> /\ group = <<>>
    /\ outcome = "none"
    /\ modal = NoModal
    /\ tried = {}
    /\ attempts = 0 /\ submit_clicked = FALSE
    /\ ExecIdle
    /\ ClsIdle
    /\ WaitIdle
    /\ OnceIdle
    /\ RetryIdle

Next ==
    \/ Step8Expired \/ Step8Found \/ Step8Reload
    \/ Step9NoButtons \/ Step9Select
    \/ Step10First \/ Step11First
    \/ SmartScanEmpty \/ SmartScan
    \/ SmartExhausted \/ SmartTimedOut \/ SmartSelect
    \/ SmartStep10 \/ SmartStep11

Spec == Init /\ [][Next]_vars

(***************************************************************************)
(* SpecExec: one run of step10_click_book_button_with_retry, step by step. *)
(* elapsed is time.time() - start_time in milliseconds.  A click and a     *)
(* lookup each take a latency the page decides; the lookup sees a modal or *)
(* not, as the page decides.                                               *)
(***************************************************************************)
Latencies == {k * LatencyStepMs : k \in 0..MaxLatency}

\* LoopContinues with <= for <
LoopContinuesLe(e) == e <= BUDGET_MS

\* while time.time() - start_time < 2.0
LoopContinues(e) == e < BUDGET_MS

\* AfterLookup without the return
AfterLookupKeepsClicking(modal_content) == "loop"

\* if modal_content: return True
AfterLookup(modal_content) == IF modal_content THEN "done" ELSE "loop"

SessionIdle ==
    /\ pc = "idle" /\ result = "none" /\ now = 0 /\ booking_time = None
    /\ config = [time_slots |-> <<>>, time_slot |-> <<>>]
    /\ refresh_count = 0 /\ date_scans = 0 /\ reloads = 0 /\ date_clicks = 0
    /\ seen_at = 0
    /\ all_bookable_buttons = <<>> /\ selected_buttons = <<>> /\ group = <<>>
    /\ outcome = "none" /\ modal = NoModal /\ tried = {} /\ attempts = 0 /\ submit_clicked = FALSE

\* book_button = wait_for_selector(book_button, timeout=10000) times out
ExecNotFound ==
    /\ ex_pc = "lookup"
    /\ ex_ret' = "false"
    /\ ex_pc' = "done"
    /\ UNCHANGED <<session_vars, cls_vars, aux_vars, elapsed, last_latency, click_count,
                   observed,
                   loop_exit>>

\* the submit control is found: start_time = time.time(); click_count = 0
ExecFound ==
    /\ ex_pc = "lookup"
    /\ elapsed' = 0
    /\ click_count' = 0
    /\ ex_pc' = "loop"
    /\ UNCHANGED <<session_vars, cls_vars, aux_vars, last_latency, observed, loop_exit,
                   ex_ret>>

\* one iteration: click, click_count += 1, sleep(0.125), query_selector(.modal-content)
ExecIterate ==
    /\ ex_pc = "loop"
    /\ LoopContinues(elapsed)
    /\ \E click_latency \in Latencies, lookup_latency \in Latencies,
          modal_content \in BOOLEAN :
          /\ elapsed' = elapsed + click_latency + SLEEP_MS + lookup_latency
          /\ last_latency' = click_latency + lookup_latency
          /\ observed' = (observed \/ modal_content)
          /\ ex_pc' = AfterLookup(modal_content)
          /\ ex_ret' = IF AfterLookup(modal_content) = "done" THEN "true" ELSE ex_ret
          /\ loop_exit' = IF AfterLookup(modal_content) = "done" THEN "modal" ELSE loop_exit
    /\ click_count' = click_count + 1
    /\ UNCHANGED <<session_vars, cls_vars, aux_vars>>

\* book_button.click() raises: except Exception: break
ExecClickRaises ==
    /\ ex_pc = "loop"
    /\ LoopContinues(elapsed)
    /\ \E click_latency \in Latencies :
          /\ elapsed' = elapsed + click_latency
          /\ last_latency' = click_latency
    /\ loop_exit' = "error"
    /\ ex_pc' = "wait"
    /\ UNCHANGED <<session_vars, cls_vars, aux_vars, click_count, observed, ex_ret>>

\* the click succeeds and query_selector raises: except Exception: break
ExecLookupRaises ==
    /\ ex_pc = "loop"
    /\ LoopContinues(elapsed)
    /\ \E click_latency \in Latencies, lookup_latency \in Latencies :
          /\ elapsed' = elapsed + click_latency + SLEEP_MS + lookup_latency
          /\ last_latency' = click_latency + lookup_latency
    /\ click_count' = click_count + 1
    /\ loop_exit' = "error"
    /\ ex_pc' = "wait"
    /\ UNCHANGED <<session_vars, cls_vars, aux_vars, observed, ex_ret>>

\* the loop head finds the 2.0 s spent
ExecLoopExit ==
    /\ ex_pc = "loop"
    /\ ~LoopContinues(elapsed)
    /\ loop_exit' = "budget"
    /\ ex_pc' = "wait"
    /\ UNCHANGED <<session_vars, cls_vars, aux_vars, elapsed, last_latency, click_count,
                   observed, ex_ret>>

\* wait_for_selector(.modal-content, timeout=5000) finds the modal
ExecWaitAppears ==
    /\ ex_pc = "wait"
    /\ observed' = TRUE
    /\ ex_ret' = "true"
    /\ ex_pc' = "done"
    /\ UNCHANGED <<session_vars, cls_vars, aux_vars, elapsed, last_latency, click_count,
                   loop_exit>>

\* wait_for_selector(.modal-content, timeout=5000) times out
ExecWaitTimeout ==
    /\ ex_pc = "wait"
    /\ ex_ret' = "false"
    /\ ex_pc' = "done"
    /\ UNCHANGED <<session_vars, cls_vars, aux_vars, elapsed, last_latency, click_count,
                   observed,
                   loop_exit>>

InitExec ==
    /\ SessionIdle
    /\ ClsIdle
    /\ WaitIdle
    /\ OnceIdle
    /\ RetryIdle
    /\ ex_pc = "lookup" /\ elapsed = 0 /\ last_latency = 0
    /\ observed = FALSE /\ loop_exit = "none" /\ ex_ret = "none" /\ click_count = 0

NextExec ==
    \/ ExecNotFound \/ ExecFound
    \/ ExecIterate \/ ExecClickRaises \/ ExecLookupRaises \/ ExecLoopExit
    \/ ExecWaitAppears \/ ExecWaitTimeout

SpecExec == InitExec /\ [][NextExec]_vars

(***************************************************************************)
(* SpecClassify: step11_check_success on every modal and page text of at   *)
(* most MaxTextLen tokens.                                                 *)
(***************************************************************************)
Texts == SeqsUpTo(1..3, MaxTextLen)

Classify ==
    /\ cls_out.log = "not run"
    /\ cls_out' = IF cls_in.raises THEN step11_raises
                   ELSE step11_check_success(cls_in.modal, cls_in.body)
    /\ UNCHANGED <<session_vars, click_count, exec_vars, cls_in, aux_vars>>

InitClassify ==
    /\ SessionIdle
    /\ ExecIdle
    /\ WaitIdle
    /\ OnceIdle
    /\ RetryIdle
    /\ cls_in \in [modal : {NoModal} \cup {<<t>> : t \in Texts}, body : Texts,
                   raises : BOOLEAN]
    /\ cls_out = [ret |-> FALSE, log |-> "not run"]

SpecClassify == InitClassify /\ [][Classify]_vars

(***************************************************************************)
(* SpecWait: main from the parsing of --booking-time (which parses) to the *)
(* call of run_booking, with wait_until_booking_time in between.  wall is  *)
(* datetime.now() in ticks, 0 at booking_time.                             *)
(***************************************************************************)
\* start_time = booking_time - timedelta(minutes=1), in ticks
start_time(bt) == (bt[1] - LEAD_SECONDS) * TicksPerSecond

\* the code between two readings of the clock, or the excess of a sleep
Drift == 0..MaxDriftTicks

\* int((start_time - current_time).total_seconds()), for current_time < start_time
WholeSeconds(ticks) == ticks \div TicksPerSecond

\* booking_time = None: no wait, the bot is run at once
MainNoBookingTime ==
    /\ pc = "main"
    /\ booking_time = None
    /\ pc' = "run_booking"
    /\ \E d \in Drift : wall' = wall + d
    /\ UNCHANGED <<result, now, booking_time, config, refresh_count, date_scans, reloads,
                   date_clicks, seen_at, all_bookable_buttons, selected_buttons, group,
                   outcome, modal, tried, attempts, click_count, submit_clicked,
                   exec_vars, cls_vars,
                   remaining_seconds, sleeps, late_start, once_vars, retry_vars>>

\* if booking_time <= current_time: logger.error(...); return
MainRejectPast ==
    /\ pc = "main"
    /\ booking_time # None
    /\ booking_time[1] * TicksPerSecond <= wall
    /\ result' = "Rejected"
    /\ pc' = "exit"
    /\ UNCHANGED <<now, booking_time, config, refresh_count, date_scans, reloads,
                   date_clicks, seen_at, all_bookable_buttons, selected_buttons, group,
                   outcome, modal, tried, attempts, click_count, submit_clicked,
                   exec_vars, cls_vars,
                   wait_vars, once_vars, retry_vars>>

\* booking_time is in the future: await wait_until_booking_time(booking_time)
MainAccept ==
    /\ pc = "main"
    /\ booking_time # None
    /\ ~(booking_time[1] * TicksPerSecond <= wall)
    /\ pc' = "wait_until_booking_time"
    /\ \E d \in Drift : wall' = wall + d
    /\ UNCHANGED <<result, now, booking_time, config, refresh_count, date_scans, reloads,
                   date_clicks, seen_at, all_bookable_buttons, selected_buttons, group,
                   outcome, modal, tried, attempts, click_count, submit_clicked,
                   exec_vars, cls_vars,
                   remaining_seconds, sleeps, late_start, once_vars, retry_vars>>

\* else: logger.warning(the current time is past the start time, starting at once)
WaitLate ==
    /\ pc = "wait_until_booking_time"
    /\ ~(wall < start_time(booking_time))
    /\ late_start' = TRUE
    /\ pc' = "run_booking"
    /\ \E d \in Drift : wall' = wall + d
    /\ UNCHANGED <<result, now, booking_time, config, refresh_count, date_scans, reloads,
                   date_clicks, seen_at, all_bookable_buttons, selected_buttons, group,
                   outcome, modal, tried, attempts, click_count, submit_clicked,
                   exec_vars, cls_vars,
                   remaining_seconds, sleeps, once_vars, retry_vars>>

\* if current_time < start_time: remaining_seconds = int(wait_seconds); print it
WaitBegin ==
    /\ pc = "wait_until_booking_time"
    /\ wall < start_time(booking_time)
    /\ remaining_seconds' = WholeSeconds(start_time(booking_time) - wall)
    /\ pc' = "countdown"
    /\ \E d \in Drift : wall' = wall + d
    /\ UNCHANGED <<result, now, booking_time, config, refresh_count, date_scans, reloads,
                   date_clicks, seen_at, all_bookable_buttons, selected_buttons, group,
                   outcome, modal, tried, attempts, click_count, submit_clicked,
                   exec_vars, cls_vars,
                   sleeps, late_start, once_vars, retry_vars>>

\* while remaining_seconds > 0: await asyncio.sleep(1); remaining_seconds -= 1; print
CountdownSleep ==
    /\ pc = "countdown"
    /\ remaining_seconds > 0
    /\ \E d \in Drift : wall' = wall + TicksPerSecond + d
    /\ sleeps' = sleeps + 1
    /\ remaining_seconds' = remaining_seconds - 1
    /\ UNCHANGED <<pc, result, now, booking_time, config, refresh_count, date_scans,
                   reloads,
                   date_clicks, seen_at, all_bookable_buttons, selected_buttons, group,
                   outcome, modal, tried, attempts, click_count, submit_clicked,
                   exec_vars, cls_vars,
                   late_start, once_vars, retry_vars>>

\* the countdown is at 0: the start is announced and the function returns
CountdownDone ==
    /\ pc = "countdown"
    /\ ~(remaining_seconds > 0)
    /\ pc' = "run_booking"
    /\ UNCHANGED <<result, now, booking_time, config, refresh_count, date_scans, reloads,
                   date_clicks, seen_at, all_bookable_buttons, selected_buttons, group,
                   outcome, modal, tried, attempts, click_count, submit_clicked,
                   exec_vars, cls_vars,
                   wait_vars, once_vars, retry_vars>>

InitWait ==
    /\ pc = "main" /\ result = "none" /\ now = 0
    /\ booking_time \in BookingTimes
    /\ config = [time_slots |-> <<>>, time_slot |-> <<>>]
    /\ refresh_count = 0 /\ date_scans = 0 /\ reloads = 0 /\ date_clicks = 0
    /\ seen_at = 0
    /\ all_bookable_buttons = <<>> /\ selected_buttons = <<>> /\ group = <<>>
    /\ outcome = "none" /\ modal = NoModal /\ tried = {} /\ attempts = 0 /\ submit_clicked = FALSE
    /\ ExecIdle
    /\ ClsIdle
    /\ OnceIdle
    /\ RetryIdle
    /\ wall \in (0 - (LEAD_SECONDS + MaxWaitSeconds) * TicksPerSecond)..MaxLateTicks
    /\ remaining_seconds = 0 /\ sleeps = 0 /\ late_start = FALSE

NextWait ==
    \/ MainNoBookingTime \/ MainRejectPast \/ MainAccept
    \/ WaitLate \/ WaitBegin
    \/ CountdownSleep \/ CountdownDone

SpecWait == InitWait /\ [][NextWait]_vars

(***************************************************************************)
(* SpecRun: run_booking, the one-time phases step1 .. step7 followed by    *)
(* run_booking_from_step8, which is the session of Spec.                   *)
(***************************************************************************)
PhasePc == <<"step1", "step2", "step3", "step4", "step5", "step6", "step7", "step8">>

\* AfterPhase going on after a phase that raised
AfterPhaseGoesOn(ok, p) == PhasePc[p + 1]

\* run_booking: the next step, or the except clause when the phase raised
AfterPhase(ok, p) == IF ok THEN PhasePc[p + 1] ELSE "done"

\* AfterClose letting the failure of step5 reach run_booking
AfterCloseRaises(closed) == IF closed THEN "step6" ELSE "done"

\* step5_close_notification returns normally, closed or not
AfterClose(closed) == "step6"

\* step p of run_booking, p # 5: it returns, or it raises (a wait_for_selector that
\* times out; for step6 and step7 no element carrying the configured name)
OneTimePhase(p) ==
    /\ pc = PhasePc[p]
    /\ \E ok \in BOOLEAN :
          /\ pc' = AfterPhase(ok, p)
          /\ result' = IF ok THEN result ELSE "PhaseFailed"
          /\ entered' = [entered EXCEPT ![p] = @ + 1,
                                        ![p + 1] = IF ok /\ p = 7 THEN @ + 1 ELSE @]
    /\ UNCHANGED <<now, booking_time, config, refresh_count, date_scans, reloads,
                   date_clicks, seen_at, all_bookable_buttons, selected_buttons, group,
                   outcome, modal, tried, attempts, click_count, submit_clicked,
                   exec_vars, cls_vars,
                   wait_vars, retry_vars, close_lookups, close_reloads, dismissed>>

step1_open_website == OneTimePhase(1)
step2_login == OneTimePhase(2)
step3_solve_captcha == OneTimePhase(3)
step4_click_login == OneTimePhase(4)
step6_select_campus == OneTimePhase(6)
step7_select_facility == OneTimePhase(7)

\* step5_close_notification: a lookup and click of button.btn-close; when that raises, a
\* reload and a second lookup and click; when those raise, a warning and nothing else
step5_close_notification ==
    /\ pc = "step5"
    /\ \E first_ok \in BOOLEAN, reload_ok \in BOOLEAN, second_ok \in BOOLEAN :
          LET closed == first_ok \/ (reload_ok /\ second_ok)
          IN  /\ close_lookups' = IF first_ok \/ ~reload_ok THEN 1 ELSE 2
              /\ close_reloads' = IF first_ok THEN 0 ELSE 1
              /\ dismissed' = closed
              /\ pc' = AfterClose(closed)
              /\ result' = IF AfterClose(closed) = "done" THEN "PhaseFailed" ELSE result
    /\ entered' = [entered EXCEPT ![5] = @ + 1]
    /\ UNCHANGED <<now, booking_time, config, refresh_count, date_scans, reloads,
                   date_clicks, seen_at, all_bookable_buttons, selected_buttons, group,
                   outcome, modal, tried, attempts, click_count, submit_clicked,
                   exec_vars, cls_vars,
                   wait_vars, retry_vars>>

InitRun ==
    /\ pc = "step1"
    /\ result = "none"
    /\ now \in GRACE_MINUTES..MaxNow
    /\ booking_time \in BookingTimes
    /\ config = [time_slots |-> <<>>, time_slot |-> <<2, 3>>]
    /\ refresh_count = 0 /\ date_scans = 0 /\ reloads = 0 /\ date_clicks = 0
    /\ seen_at = 0
    /\ all_bookable_buttons = <<>> /\ selected_buttons = <<>> /\ group = <<>>
    /\ outcome = "none"
    /\ modal = NoModal
    /\ tried = {}
    /\ attempts = 0 /\ submit_clicked = FALSE
    /\ ExecIdle
    /\ ClsIdle
    /\ WaitIdle
    /\ OnceIdle
    /\ RetryIdle

NextRun ==
    \/ step1_open_website \/ step2_login \/ step3_solve_captcha \/ step4_click_login
    \/ step5_close_notification
    \/ step6_select_campus \/ step7_select_facility
    \/ Next

SpecRun == InitRun /\ [][NextRun]_vars

(***************************************************************************)
(* SpecLive: the session with the date poller followed without a bound on  *)
(* its iterations.  refresh_count is followed modulo MaxScans (it is only  *)
(* logged), the poller's other counters are not followed.  Fairness: the   *)
(* program takes its next step, and the clock advances while the poller    *)
(* polls.                                                                  *)
(***************************************************************************)
\* one iteration of while True that finds no matching date option and reloads
PollReload ==
    /\ pc = "step8"
    /\ ~hasExpired(now, timeout_time(booking_time))
    /\ \E elems \in SeqsUpTo(DateLabels, MaxDates) : FirstMatch(elems, 1) = 0
    /\ refresh_count' = (refresh_count % MaxScans) + 1
    /\ pc' = "step8"
    /\ Advance
    /\ UNCHANGED <<result, booking_time, config, date_scans, reloads, date_clicks, seen_at,
                   all_bookable_buttons, selected_buttons, group, outcome,
                   modal, tried, attempts,
                   click_count, submit_clicked, exec_vars, cls_vars, aux_vars>>

NextLive ==
    \/ Step8Expired \/ Step8Found \/ PollReload
    \/ Step9NoButtons \/ Step9Select
    \/ Step10First \/ Step11First
    \/ SmartScanEmpty \/ SmartScan
    \/ SmartExhausted \/ SmartTimedOut \/ SmartSelect
    \/ SmartStep10 \/ SmartStep11

SpecLive ==
    /\ Init
    /\ [][NextLive]_vars
    /\ WF_vars(NextLive)
    /\ WF_vars(PollReload /\ now' > now)

(***************************************************************************)
(* The claims.                                                             *)
(***************************************************************************)
\* the pool the next group is, or was last, drawn from
Pool == IF pc \in {"step10", "step11"} THEN selected_buttons ELSE all_bookable_buttons

InRetryLoop == pc \in {"smart_head", "smart_step10", "smart_step11"}

\* C1: once an attempt on a group has ended without Success, no member of that group
\* is in the pool or in the group of a later attempt of the session, the first
\* attempt included.
C1_NoTriedCandidateAgain ==
    InRetryLoop => (Range(all_bookable_buttons) \cup Range(group)) \cap tried = {}

\* C2: as soon as an attempt is classified Success the run reports Success and
\* nothing more is done: the session is at its end and no step is enabled.
C2_SuccessEndsRun ==
    outcome = "Success" => (result = "Success" /\ pc = "done" /\ ~ENABLED Next)

\* C2, witness: a retry iteration was classified Success and the run reported it.
C2_Witness == outcome = "Success" /\ result = "Success" /\ attempts >= 2

\* C3: every attempt that does not end in Success removes its group from the pool and
\* leads to the decision point, where an empty pool ends the session as Exhausted, a
\* non-empty pool past the deadline ends it as TimedOut, and the next group is
\* selected otherwise.
C3_RemoveThenDecide ==
    [][ /\ (/\ pc \in {"step10", "step11", "smart_step10", "smart_step11"}
            /\ pc' \notin {pc, "step11", "smart_step11", "done"})
           => /\ pc' = "smart_head"
              /\ Range(all_bookable_buttons') \cap Range(group) = {}
        /\ (pc = "smart_head" /\ pc' # pc)
           => /\ all_bookable_buttons = <<>> => result' = "Exhausted"
              /\ (/\ all_bookable_buttons # <<>>
                  /\ booking_time # None
                  /\ now > booking_time[1] + GRACE_MINUTES) => result' = "TimedOut"
              /\ (/\ all_bookable_buttons # <<>>
                  /\ ~(booking_time # None /\ now > booking_time[1] + GRACE_MINUTES))
                 => pc' = "smart_step10"
      ]_vars

\* C4: the slots of one group are pairwise distinct, in the first attempt and in
\* every retry iteration.
C4_GroupDistinct ==
    \A i, j \in DOMAIN group : i # j => group[i] # group[j]

\* C5: a group has exactly min(2, |pool|) members, pool being the set of candidates
\* it is drawn from, so 1 or 2; and no group is drawn from an empty pool.
C5_GroupSize ==
    pc \in {"step10", "smart_step10"} =>
        /\ Range(Pool) # {}
        /\ Len(group) = Min(2, Cardinality(Range(Pool)))
        /\ Len(group) \in {1, 2}

\* C9: a head check of the date poller or of the retry loop that reads a clock value
\* past the deadline ends the session in that step with a deadline failure: no date
\* scan, reload, date click, selection or submission follows.
C9_ExpiredHeadEndsLoop ==
    [][ (/\ pc = "step8" \/ (pc = "smart_head" /\ all_bookable_buttons # <<>>)
         /\ booking_time # None
         /\ now > booking_time[1] + GRACE_MINUTES)
        => /\ pc' = "done"
           /\ result' = (IF pc = "step8" THEN "DeadlineExceeded" ELSE "TimedOut")
           /\ UNCHANGED <<date_scans, reloads, date_clicks, attempts, group,
                          all_bookable_buttons, tried>>
      ]_vars

\* C9, witness: the retry loop was ended by its head check after a failed attempt.
C9_Witness == result = "TimedOut" /\ attempts >= 1 /\ now > booking_time[1] + GRACE_MINUTES

\* C10: when the target date is first displayed on scan N the poller has made exactly N
\* scans and N - 1 reloads and one date click, and makes no more; a run that ended
\* without a date click ended with DeadlineExceeded, the date never displayed.
C10_DatePollerCounts ==
    /\ date_clicks <= 1
    /\ date_clicks = 1 => (seen_at >= 1 /\ date_scans = seen_at /\ reloads = seen_at - 1)
    /\ (pc = "done" /\ date_clicks = 0) => (result = "DeadlineExceeded" /\ seen_at = 0)

\* C10, witness: the date appeared on the second scan and the session went on to an
\* attempt.
C10_Witness == date_clicks = 1 /\ seen_at = 2 /\ reloads = 1 /\ attempts >= 1

\* a text holds one of the two success markers
HasMarker(text) == \E marker \in {SUCCESS_1, SUCCESS_2} : Contains(text, marker)

\* C6: when the classifier reads the page without an exception, its outcome is decided
\* by whether a modal is present and whether the text read holds a success marker:
\* Success, Failure, Success, Unknown; and Unknown differs from Failure in the line
\* logged.
C6_TriState ==
    (cls_out.log # "not run" /\ ~cls_in.raises) =>
        /\ (cls_in.modal # NoModal /\ HasMarker(cls_in.modal[1])) => Outcome(cls_out) = "Success"
        /\ (cls_in.modal # NoModal /\ ~HasMarker(cls_in.modal[1])) => Outcome(cls_out) = "Failure"
        /\ (cls_in.modal = NoModal /\ HasMarker(cls_in.body)) => Outcome(cls_out) = "Success"
        /\ (cls_in.modal = NoModal /\ ~HasMarker(cls_in.body)) => Outcome(cls_out) = "Unknown"
        /\ cls_out.ret = (Outcome(cls_out) = "Success")

\* C6, witness: no modal and a page text without marker, classified Unknown.
C6_Witness ==
    /\ cls_in.modal = NoModal /\ cls_in.body = <<2, 1, 3>> /\ ~cls_in.raises
    /\ cls_out = [ret |-> FALSE, log |-> "no success text detected"]

\* C7 as claimed: with no result surface seen, at most 16 clicks, and the loop is left
\* no later than 2.0 s plus one 125 ms tick after it started, whatever the calls take.
C7_LeftWithinBudgetPlusTick ==
    /\ click_count <= 16
    /\ (ex_pc = "wait" /\ ~observed) => elapsed <= BUDGET_MS + SLEEP_MS

\* C7, amended: at most 16 clicks, and the loop is left no later than 2.0 s plus one
\* 125 ms tick plus what the click and the lookup of its last iteration took.
C7_LeftWithinBudgetPlusIteration ==
    /\ click_count <= 16
    /\ (ex_pc = "wait" /\ ~observed) => elapsed <= BUDGET_MS + SLEEP_MS + last_latency

\* C7, witness: the loop was left by its head check after 16 clicks, no surface seen.
C7_Witness == ex_pc = "wait" /\ loop_exit = "budget" /\ click_count = 16 /\ ~observed

\* C8: no click follows the check that sees a result surface, which ends the run with
\* true; and the run returns true exactly when a surface was seen, in the loop or in
\* the wait after it.
C8_StopsOnSurface ==
    /\ [][observed => (click_count' = click_count /\ ex_pc' = "done")]_vars
    /\ [](observed => (ex_pc = "done" /\ ex_ret = "true"))
    /\ [](ex_pc = "done" => (ex_ret = "true" <=> observed))

\* C8, witness: the third check saw the surface and the run returned true.
C8_Witness == ex_pc = "done" /\ ex_ret = "true" /\ loop_exit = "modal" /\ click_count = 3

\* C11: a release instant that is already past when the program is invoked is not
\* fatal: main goes on to the scheduler, which signals the late start, does not sleep,
\* and the bot is run.
C11_LateStartProceeds ==
    [][ /\ (pc = "main" /\ booking_time # None /\ wall > booking_time[1] * TicksPerSecond)
           => pc' = "wait_until_booking_time"
        /\ (/\ pc = "wait_until_booking_time"
            /\ wall > booking_time[1] * TicksPerSecond)
           => (pc' = "run_booking" /\ late_start' /\ sleeps' = 0)
      ]_vars

\* the row label of slot s contains one of the configured target strings
MatchesTarget(s) ==
    \E i \in DOMAIN target_time_slots(config) :
        Contains(RowText(RowOf(s)), target_time_slots(config)[i])

\* C12: every group is drawn from the bookable slots whose row label contains a
\* configured target string when there is such a slot, and from all bookable slots
\* only when there is none, in the first attempt and in every retry iteration; and
\* no group is drawn when no slot is bookable.
C12_PoolIsFiltered ==
    /\ pc = "step10" =>
          LET bookable == Range(all_bookable_buttons)
              matching == {s \in bookable : MatchesTarget(s)}
          IN  Range(selected_buttons) = IF matching # {} THEN matching ELSE bookable
    /\ InRetryLoop =>
          LET candidates == Range(all_bookable_buttons) \cup Range(group)
          IN  (\E s \in candidates : MatchesTarget(s))
                  => (\A s \in candidates : MatchesTarget(s))
    /\ result = "NoCandidatesFound" => (pc = "done" /\ all_bookable_buttons = <<>>)

\* C13: every one-time phase is entered at most once in a session, whatever fails or
\* is retried later; a phase is entered only after every phase before it; and a
\* one-time phase that raises ends the session in failure before any date scan, slot
\* selection, submission or classification.
C13_OneTimePhasesOnce ==
    /\ \A p \in Phases : entered[p] <= 1
    /\ \A p, q \in Phases : (p < q /\ entered[q] = 1) => entered[p] = 1
    /\ (date_scans > 0 \/ date_clicks > 0 \/ attempts > 0 \/ group # <<>> \/ outcome # "none")
          => (entered[8] = 1 /\ result # "PhaseFailed")
    /\ result = "PhaseFailed" => (pc = "done" /\ ~ENABLED NextRun)

\* C13, witness: the campus was not found; the session ended there.
C13_Witness ==
    /\ result = "PhaseFailed" /\ pc = "done"
    /\ entered[6] = 1 /\ entered[7] = 0 /\ date_scans = 0

\* C17: step5 never ends the session: it makes at most two lookups and one reload, and
\* whether it closed the notification or failed twice, campus selection is the next
\* step, with nothing else of the session's state changed.
C17_DismissFailureAbsorbed ==
    /\ [][pc = "step5" =>
            /\ pc' = "step6"
            /\ result' = result
            /\ close_lookups' <= 2 /\ close_reloads' <= 1
            /\ UNCHANGED <<now, booking_time, config, date_scans, attempts, group>>
         ]_vars
    /\ [](close_lookups <= 2 /\ close_reloads <= 1)

\* C17, witness: both lookups failed, around one reload, and the session went on to
\* select the campus and to an attempt.
C17_Witness ==
    /\ ~dismissed /\ close_lookups = 2 /\ close_reloads = 1
    /\ entered[6] = 1 /\ attempts >= 1

\* C14: with every call returning and the clock advancing, every session ends and
\* reports an outcome, with or without a release instant configured, whatever the page
\* shows.
C14_SessionTerminates == <>(pc = "done" /\ result # "none")

\* C15: a submission that fails (the submit control not found, a click that raises, no
\* result surface) is a failed attempt: the session goes on without reporting
\* anything, and the pool the next group is drawn from holds no member of the failed
\* group, after a retry's submission and after the first attempt's.
C15_SubmissionFailureRemovesGroup ==
    [][ /\ (pc = "smart_step10" /\ pc' # "smart_step11")
           => /\ pc' = "smart_head"
              /\ result' = result
              /\ Range(all_bookable_buttons') \cap Range(group) = {}
        /\ (pc = "step10" /\ pc' # "step11")
           => (pc' = "smart_scan" /\ result' = result)
        /\ (pc = "smart_scan" /\ outcome = "none" /\ pc' = "smart_head")
           => Range(all_bookable_buttons') \cap tried = {}
      ]_vars

\* C16: every submission is followed by a run of the classifier, before the pool is
\* changed and before the retry decision, also when the submission saw no result
\* surface.
C16_ClassifierAfterEveryAttempt ==
    [][ (pc \in {"step10", "smart_step10"} /\ pc' # pc)
        => /\ pc' \in {"step11", "smart_step11"}
           /\ all_bookable_buttons' = all_bookable_buttons
           /\ tried' = tried
      ]_vars

\* C18: the date poller and the retry loop test the clock against the same instant,
\* booking_time plus the grace window, which does not change during the session; a
\* head check that reads exactly that instant goes on with its iteration, and a
\* deadline failure is reported only for a reading strictly after it.
C18_StrictSharedDeadline ==
    [][ /\ booking_time' = booking_time
        /\ (booking_time # None /\ now = booking_time[1] + GRACE_MINUTES)
           => /\ result' \notin {"DeadlineExceeded", "TimedOut"}
              /\ pc = "step8" =>
                    (pc' \in {"step8", "step9"} /\ date_scans' = date_scans + 1)
              /\ (pc = "smart_head" /\ all_bookable_buttons # <<>>) => pc' = "smart_step10"
        /\ (result = "none" /\ result' \in {"DeadlineExceeded", "TimedOut"})
           => (booking_time # None /\ now > booking_time[1] + GRACE_MINUTES)
      ]_vars

\* C18, witness: the head check of the retry loop read exactly the deadline (the clock
\* never runs backwards) after a failed attempt, and the next group was selected.
C18_Witness ==
    /\ pc = "smart_step10" /\ attempts >= 1 /\ group # <<>>
    /\ booking_time # None /\ now = booking_time[1] + GRACE_MINUTES

\* C19: called strictly before the start time (booking_time minus the lead), the
\* scheduler signals no late start, counts down one second per step with strictly
\* decreasing values, and returns at the start time or later, whatever the fraction
\* of a second in the time it was called at.
C19_ReturnsAtStartTime ==
    [][ /\ (pc = "wait_until_booking_time" /\ wall < start_time(booking_time))
           => (pc' = "countdown" /\ ~late_start')
        /\ (pc = "countdown" /\ pc' = "countdown")
           => /\ remaining_seconds' = remaining_seconds - 1
              /\ remaining_seconds' >= 0
              /\ wall' >= wall + TicksPerSecond
        /\ (pc = "countdown" /\ pc' = "run_booking")
           => (wall' >= start_time(booking_time) /\ ~late_start')
      ]_vars

\* C20: the run reports Success only when the classifier found a success marker, after
\* at least one click on the submit control was made in the run; a modal merely seen
\* by step10, or an exception, gives no Success.
C20_SuccessOnlyAfterClickAndMarker ==
    result = "Success" => (outcome = "Success" /\ attempts >= 1 /\ submit_clicked)

\* C21: in the retry loop every iteration that does not end in Success takes
\* exactly min(2, |pool|) buttons out of a non-empty pool, so after k finished
\* iterations 2k <= n + 1 for the n buttons of the loop's scan (k <= ceil(n/2)),
\* what is left is n - 2k buttons or none, and with the pool empty the loop is
\* left with no button selected again, with or without a release instant.
C21_PoolShrinksByGroup ==
    /\ [][(pc \in {"smart_step10", "smart_step11"} /\ pc' = "smart_head")
            => /\ all_bookable_buttons # <<>>
               /\ Len(all_bookable_buttons') =
                     Len(all_bookable_buttons)
                       - Min(GROUP_SIZE, Len(all_bookable_buttons))]_vars
    /\ [](InRetryLoop =>
            /\ 2 * (attempts - 1) <= scan_size + 1
            /\ (pc = "smart_head" =>
                  Len(all_bookable_buttons) =
                     IF scan_size >= 2 * (attempts - 1)
                     THEN scan_size - 2 * (attempts - 1) ELSE 0))
    /\ [][(pc = "smart_head" /\ all_bookable_buttons = <<>>)
            => (pc' = "done" /\ result' = "Exhausted" /\ attempts' = attempts)]_vars

C21_Witness ==
    /\ result = "Exhausted" /\ booking_time = None
    /\ scan_size = 3 /\ attempts - 1 = 2

\* C22: the result surface that step10 has observed in an attempt of the retry
\* loop, and that step11 is about to read, appeared after that attempt's first
\* submit click: it is never the surface the previous attempt left on the page.
C22_SurfaceIsOfThisAttempt == pc = "smart_step11" => ~leftover

\* C23: with a release instant configured, a group is selected, and the submit
\* clicks of an attempt are started, only while the clock is not past the
\* deadline booking_time + 5 minutes; the first attempt is no exception.
C23_NoAttemptAfterDeadline ==
    [][((group = <<>> /\ group' # <<>>) \/ attempts' = attempts + 1)
         => ~hasExpired(now, timeout_time(booking_time))]_vars

====
